---- MODULE Spec2Model ----
(***************************************************************************)
(* Read/write set analysis of the Move prover                              *)
(* (language/move-prover/bytecode/src/read_write_set_analysis.rs).         *)
(*                                                                         *)
(* The abstract state is a pair of access-path tries: `accesses` (path to  *)
(* Access kind) and `locals` (path to abstract address set).  A trie is    *)
(* modelled as a function whose domain is the set of its nodes (non-empty  *)
(* sequences root, offset, ..., offset, closed under prefixes) and whose   *)
(* value at a node is the node's optional data: {} for None, {d} for       *)
(* Some(d).                                                                *)
(***************************************************************************)
EXTENDS Integers, Sequences, FiniteSets, TLC

\* ---------------------------------------------------------------------------
\* Bounds of the model

\* number of instructions executed in one straight-line analysis run
MaxSteps == 2
\* local slots of the analysed procedure are 0 .. NumSlots-1
NumSlots == 2

Slots == 0 .. (NumSlots - 1)
\* the analysed procedure has one formal parameter, slot 0
Params == {0}
NonParameterLocals == Slots \ Params

\* ---------------------------------------------------------------------------
\* Access paths: a root followed by offsets.  A root or offset is the triple
\* (kind, index, type argument) packed into one number, kind * 100000 +
\* index * 10 + type: kinds 1 Local, 2 Return, 3 Global root, 4 Field,
\* 5 VectorIndex, 6 Global offset; types 0 (none), 1 and 2 (the concrete
\* types T1 and T2) and 3 (the type parameter of the enclosing function).

Elem(kind, idx, ty) == kind * 100000 + idx * 10 + ty
ElemKind(e) == e \div 100000
ElemIdx(e) == (e % 100000) \div 10
ElemTy(e) == e % 10

Local(i) == Elem(1, i, 0)
Return(i) == Elem(2, i, 0)
\* root for the global key (constant address c, resource type R<ty>)
GlobalRoot(c, ty) == Elem(3, c, ty)
Field(f) == Elem(4, f, 0)
VectorIndex == Elem(5, 0, 0)
\* offset into global storage by resource type R<ty>
GlobalOffset(ty) == Elem(6, 0, ty)

IsLocal(e) == ElemKind(e) = 1
IsGlobalOffset(e) == ElemKind(e) = 6

\* Addr: Footprint(access path) or Constant(address literal)
Footprint(ap) == [kind |-> "Footprint", path |-> ap, c |-> 0]
Constant(c) == [kind |-> "Constant", path |-> << >>, c |-> c]

\* AbsAddr constructors
AbsAddr_footprint(ap) == {Footprint(ap)}
AbsAddr_constant(c) == {Constant(c)}
AbsAddr_formal(i) == {Footprint(<<Local(i)>>)}

footprint_paths(addrs) == {v.path : v \in {w \in addrs : w.kind = "Footprint"}}

\* AbsAddr::add_offset: every footprint path extended by the offset
AbsAddr_add_offset(addrs, offset) ==
    {Footprint(Append(ap, offset)) : ap \in footprint_paths(addrs)}

\* Addr::add_struct_offset: the access path of resource R<ty> at address v
add_struct_offset(v, ty) ==
    IF v.kind = "Footprint"
    THEN Append(v.path, GlobalOffset(ty))
    ELSE <<GlobalRoot(v.c, ty)>>

\* ---------------------------------------------------------------------------
\* Access lattice

AccessKinds == {"Borrow", "Read", "Write", "ReadWriteBorrow"}

\* PartialOrd for Access: "Equal", "Less", "Greater" or "None" (incomparable)
partial_cmp(self, other) ==
    IF self = other THEN "Equal"
    ELSE IF self = "Borrow" THEN "Less"
    ELSE IF other = "Borrow" THEN "Greater"
    ELSE IF self = "ReadWriteBorrow" THEN "Greater"
    ELSE IF other = "ReadWriteBorrow" THEN "Less"
    ELSE "None"

\* faulty variant: the wildcard arm keeps the first operand instead of going to top
Access_join_keep(self, other) ==
    IF self = other THEN [val |-> self, res |-> "Unchanged"]
    ELSE [val |-> IF self = "Borrow" THEN other ELSE self,
          res |-> "Changed"]

\* faulty variant: unequal operands always go to the top value
Access_join_top(self, other) ==
    IF self = other THEN [val |-> self, res |-> "Unchanged"]
    ELSE [val |-> "ReadWriteBorrow", res |-> "Changed"]

\* AbstractDomain for Access: the value left in self and the JoinResult
Access_join(self, other) ==
    IF self = other THEN [val |-> self, res |-> "Unchanged"]
    ELSE [val |-> IF self = "Borrow" THEN other
                  ELSE IF other = "Borrow" THEN self
                  ELSE "ReadWriteBorrow",
          res |-> "Changed"]

\* AbstractDomain for AbsAddr (a set domain): union
AbsAddr_join(self, other) ==
    [val |-> self \cup other,
     res |-> IF other \subseteq self THEN "Unchanged" ELSE "Changed"]

\* ---------------------------------------------------------------------------
\* Access path trie (container of the abstract state)

EmptyTrie == << >>

\* the function f with every node's data computed (f itself, as a value)
Stored(f) == f @@ << >>

Prefixes(ap) == {SubSeq(ap, 1, n) : n \in 1 .. Len(ap)}

IsPrefix(p, q) == Len(p) <= Len(q) /\ SubSeq(q, 1, Len(p)) = p

\* optional data of the node at ap: {} when the node is missing or holds None
NodeData(trie, ap) == IF ap \in DOMAIN trie THEN trie[ap] ELSE {}

TheData(opt) == CHOOSE d \in opt : TRUE

\* the join of the data domain T the trie stores: "Access" or "AbsAddr"
T_join(T, self, other) ==
    IF T = "Access" THEN Access_join(self, other)
    ELSE AbsAddr_join(self, other)

\* join of optional data in the data domain T
join_data_opt(T, old, new) ==
    IF new = {} THEN old
    ELSE IF old = {} THEN new
    ELSE {T_join(T, TheData(old), TheData(new)).val}

data_changed(T, old, new) ==
    IF new = {} THEN FALSE
    ELSE IF old = {} THEN TRUE
    ELSE T_join(T, TheData(old), TheData(new)).res = "Changed"

\* strong update: the data at ap is overwritten, missing nodes are created
update_access_path(trie, ap, data) ==
    Stored([p \in DOMAIN trie \cup Prefixes(ap) |->
               IF p = ap THEN data ELSE NodeData(trie, p)])

\* weak update: the data at ap is joined with the new data
update_access_path_weak(T, trie, ap, data) ==
    Stored([p \in DOMAIN trie \cup Prefixes(ap) |->
               IF p = ap THEN join_data_opt(T, NodeData(trie, ap), data)
               ELSE NodeData(trie, p)])

\* pointwise join of two tries and its JoinResult
Trie_join(T, self, other) ==
    [val |-> Stored([p \in DOMAIN self \cup DOMAIN other |->
                 join_data_opt(T, NodeData(self, p), NodeData(other, p))]),
     res |-> IF \E p \in DOMAIN other :
                    \/ p \notin DOMAIN self
                    \/ data_changed(T, NodeData(self, p), other[p])
             THEN "Changed" ELSE "Unchanged"]

\* the node at ap with its subtree, as a trie relative to ap (the node itself
\* is the empty sequence); EmptyTrie when there is no such node
get_node(trie, ap) ==
    Stored([s \in {SubSeq(q, Len(ap) + 1, Len(q)) :
                       q \in {r \in DOMAIN trie : IsPrefix(ap, r)}} |->
               trie[ap \o s]])

\* a trie holding exactly the node (with its subtree) at ap
Graft(ap, node) ==
    Stored([p \in Prefixes(ap) \cup {ap \o s : s \in DOMAIN node} |->
               IF IsPrefix(ap, p) THEN node[SubSeq(p, Len(ap) + 1, Len(p))]
               ELSE {}])

\* join the node (with its subtree) into the trie at ap
join_access_path(T, trie, ap, node) ==
    Trie_join(T, trie, Graft(ap, node)).val

\* direct child offsets of a node, and the child node at an offset
children(node) == {s[1] : s \in {t \in DOMAIN node : Len(t) >= 1}}

child(node, offset) == get_node(node, <<offset>>)

\* the trie without the root r and everything below it
remove_root(trie, r) ==
    Stored([p \in {q \in DOMAIN trie : q[1] # r} |-> trie[p]])

get_local(trie, i) == NodeData(trie, <<Local(i)>>)

local_exists(trie, i) == get_local(trie, i) # {}

remove_local(trie, i) == remove_root(trie, Local(i))

\* the root node of slot i is replaced by a node holding data
bind_local(trie, i, data) ==
    update_access_path(remove_root(trie, Local(i)), <<Local(i)>>, {data})

bind_return(trie, i, data) ==
    update_access_path(remove_root(trie, Return(i)), <<Return(i)>>, {data})

\* the root node of slot i is replaced by node
bind_local_node(trie, i, node) ==
    LET rest == remove_root(trie, Local(i))
        new == Graft(<<Local(i)>>, node)
    IN Stored([p \in DOMAIN rest \cup DOMAIN new |->
                  IF p \in DOMAIN new THEN new[p] ELSE rest[p]])

\* ---------------------------------------------------------------------------
\* Abstract state: [accesses, locals] and the outcome of the run so far
\* (status "run", or "failed" with the panic message in err)

Fail(st, msg) == [st EXCEPT !.status = "failed", !.err = <<msg, "", "">>]

\* the loop `for ap in paths { trie.update_access_path(ap, data) }`
RECURSIVE update_each(_, _, _)
update_each(trie, paths, data) ==
    IF paths = {} THEN trie
    ELSE LET ap == CHOOSE a \in paths : TRUE
         IN update_each(update_access_path(trie, ap, data), paths \ {ap}, data)

\* the loop `for ap in paths { trie.update_access_path_weak(ap, data) }`
RECURSIVE update_each_weak(_, _, _)
update_each_weak(trie, paths, data) ==
    IF paths = {} THEN trie
    ELSE LET ap == CHOOSE a \in paths : TRUE
         IN update_each_weak(update_access_path_weak("Access", trie, ap, data),
                             paths \ {ap}, data)

\* the loop `for ap in paths { locals.update_access_path(ap, footprint(ap)) }`
RECURSIVE seed_each(_, _)
seed_each(trie, paths) ==
    IF paths = {} THEN trie
    ELSE LET ap == CHOOSE a \in paths : TRUE
         IN seed_each(update_access_path(trie, ap, {AbsAddr_footprint(ap)}),
                      paths \ {ap})

copy_local(st, lhs_index, rhs_index) ==
    IF get_local(st.locals, rhs_index) = {}
    THEN Fail(st, "Unbound local")
    ELSE [st EXCEPT !.locals =
             bind_local(st.locals, lhs_index,
                        TheData(get_local(st.locals, rhs_index)))]

\* defined when addr_idx is bound
get_global_paths(st, addr_idx, ty) ==
    {add_struct_offset(v, ty) : v \in TheData(get_local(st.locals, addr_idx))}

\* faulty variant: the resource paths keep their bindings
remove_global_keep(st, addr_idx, ty) ==
    IF get_local(st.locals, addr_idx) = {}
    THEN Fail(st, "Untracked local of address type")
    ELSE st

remove_global(st, addr_idx, ty) ==
    IF get_local(st.locals, addr_idx) = {}
    THEN Fail(st, "Untracked local of address type")
    ELSE [st EXCEPT !.locals =
             update_each(st.locals, get_global_paths(st, addr_idx, ty), {})]

add_global_access(st, local_idx, ty, access) ==
    IF get_local(st.locals, local_idx) = {}
    THEN Fail(st, "Untracked local of address type")
    ELSE [st EXCEPT !.accesses =
             update_each_weak(st.accesses,
                              get_global_paths(st, local_idx, ty), {access})]

\* variant with a weak update: the access is joined into the recorded kind
record_access_weak(st, local_idx, access) ==
    IF get_local(st.locals, local_idx) = {}
    THEN Fail(st, "Unbound local")
    ELSE [st EXCEPT !.accesses =
             update_each_weak(st.accesses,
                 footprint_paths(TheData(get_local(st.locals, local_idx))),
                 {access})]

\* faulty variant: an unbound slot is passed over without a failure
record_access_lenient(st, local_idx, access) ==
    IF get_local(st.locals, local_idx) = {}
    THEN st
    ELSE [st EXCEPT !.accesses =
             update_each(st.accesses,
                 footprint_paths(TheData(get_local(st.locals, local_idx))),
                 {access})]

record_access(st, local_idx, access) ==
    IF get_local(st.locals, local_idx) = {}
    THEN Fail(st, "Unbound local")
    ELSE [st EXCEPT !.accesses =
             update_each(st.accesses,
                 footprint_paths(TheData(get_local(st.locals, local_idx))),
                 {access})]

access_offset(st, base, offset, access_type) ==
    IF get_local(st.locals, base) = {}
    THEN Fail(st, "Unbound local")
    ELSE LET borrowed == TheData(get_local(st.locals, base))
             extended_aps == AbsAddr_add_offset(borrowed, offset)
         IN [st EXCEPT !.accesses =
                update_each(st.accesses, footprint_paths(extended_aps),
                            {access_type})]

assign_offset(st, ret, base, offset, access_type) ==
    IF get_local(st.locals, base) = {}
    THEN Fail(st, "Unbound local")
    ELSE LET borrowed == TheData(get_local(st.locals, base))
             extended_aps == AbsAddr_add_offset(borrowed, offset)
             paths == footprint_paths(extended_aps)
         IN [st EXCEPT
                !.locals = bind_local(seed_each(st.locals, paths), ret,
                                      extended_aps),
                !.accesses = update_each(st.accesses, paths, {access_type})]

\* faulty variant: rhs's address set is joined into the stored values
write_ref_joined(st, lhs_ref, rhs) ==
    IF get_local(st.locals, rhs) = {} THEN st
    ELSE IF get_local(st.locals, lhs_ref) = {}
    THEN Fail(st, "Unbound local")
    ELSE LET rhs_val == TheData(get_local(st.locals, rhs))
             paths == footprint_paths(TheData(get_local(st.locals, lhs_ref)))
         IN [st EXCEPT !.locals =
                Stored([p \in DOMAIN st.locals
                               \cup UNION {Prefixes(ap) : ap \in paths} |->
                           IF p \in paths
                           THEN join_data_opt("AbsAddr", NodeData(st.locals, p),
                                              {rhs_val})
                           ELSE NodeData(st.locals, p)])]

write_ref(st, lhs_ref, rhs) ==
    IF get_local(st.locals, rhs) = {} THEN st
    ELSE IF get_local(st.locals, lhs_ref) = {}
    THEN Fail(st, "Unbound local")
    ELSE LET rhs_val == TheData(get_local(st.locals, rhs))
             lhs_paths == TheData(get_local(st.locals, lhs_ref))
         IN [st EXCEPT !.locals =
                update_each(st.locals, footprint_paths(lhs_paths), {rhs_val})]

\* ---------------------------------------------------------------------------
\* Joins

\* faulty variant: the incoming state replaces the stored one
ReadWriteSetState_join_replace(self, other) ==
    [val |-> [self EXCEPT !.accesses = other.accesses,
                          !.locals = other.locals],
     res |-> IF self.accesses = other.accesses /\ self.locals = other.locals
             THEN "Unchanged" ELSE "Changed"]

ReadWriteSetState_join(self, other) ==
    LET acc == Trie_join("Access", self.accesses, other.accesses)
        loc == Trie_join("AbsAddr", self.locals, other.locals)
    IN [val |-> [self EXCEPT !.accesses = acc.val, !.locals = loc.val],
        res |-> IF acc.res = "Unchanged" /\ loc.res = "Unchanged"
                THEN "Unchanged" ELSE "Changed"]

\* ---------------------------------------------------------------------------
\* Footprint substitution at a call site.  Resource types are R<ty> with ty a
\* concrete type ("T1", "T2") or the callee's type parameter "TP0".

ConcreteTypes == {1, 2}
TypeParam == 3

\* Type::instantiate on the type argument of R
Instantiate(ty, type_actuals) ==
    IF ty = TypeParam /\ Len(type_actuals) >= 1 THEN type_actuals[1] ELSE ty

substitute_path_types(ap, type_actuals) ==
    [n \in 1 .. Len(ap) |->
        Elem(ElemKind(ap[n]), ElemIdx(ap[n]),
             Instantiate(ElemTy(ap[n]), type_actuals))]

RECURSIVE join_all_data(_, _, _)
join_all_data(T, acc, opts) ==
    IF opts = {} THEN acc
    ELSE LET o == CHOOSE x \in opts : TRUE
         IN join_all_data(T, join_data_opt(T, acc, o), opts \ {o})

\* AccessPath::prepend_addrs: the offsets re-rooted at every address of addrs
prepend_addrs(offsets, addrs) ==
    UNION {IF v.kind = "Footprint"
           THEN {Footprint(v.path \o offsets)}
           ELSE IF offsets = << >> THEN {v}
           ELSE IF IsGlobalOffset(offsets[1])
           THEN {Footprint(<<GlobalRoot(v.c, ElemTy(offsets[1]))>>
                           \o Tail(offsets))}
           ELSE {} : v \in addrs}

\* AbsAddr::substitute_footprint: formal roots replaced by the actuals' values
AbsAddr_substitute_footprint(addrs, actual_values, type_actuals) ==
    UNION {IF v.kind = "Constant" THEN {v}
           ELSE LET ap == substitute_path_types(v.path, type_actuals)
                IN IF IsLocal(ap[1]) /\ ElemIdx(ap[1]) < Len(actual_values)
                   THEN prepend_addrs(Tail(ap),
                                      actual_values[ElemIdx(ap[1]) + 1])
                   ELSE {Footprint(ap)} : v \in addrs}

\* AccessPathTrie::substitute_footprint_skip_data: types of the keys instantiated
substitute_footprint_skip_data(trie, type_actuals) ==
    Stored([p \in {substitute_path_types(q, type_actuals) : q \in DOMAIN trie}
               |->
        join_all_data("Access", {},
            {trie[q] : q \in {r \in DOMAIN trie :
                                substitute_path_types(r, type_actuals) = p}})])

\* AccessPathTrie::substitute_footprint for locals: keys and address sets
substitute_footprint(trie, actual_values, type_actuals) ==
    Stored([p \in {substitute_path_types(q, type_actuals) : q \in DOMAIN trie}
               |->
        join_all_data("AbsAddr", {},
            {IF trie[q] = {} THEN {}
             ELSE {AbsAddr_substitute_footprint(TheData(trie[q]),
                                                actual_values, type_actuals)} :
                q \in {r \in DOMAIN trie :
                          substitute_path_types(r, type_actuals) = p}})])

\* faulty variant: the callee's node replaces what the caller had recorded
RECURSIVE overwrite_each_node(_, _)
overwrite_each_node(trie, grafts) ==
    IF grafts = {} THEN trie
    ELSE LET g == CHOOSE x \in grafts : TRUE
             new == Graft(g.ap, g.node)
         IN overwrite_each_node(
                Stored([p \in DOMAIN trie \cup DOMAIN new |->
                           IF p \in DOMAIN new /\ new[p] # {} THEN new[p]
                           ELSE NodeData(trie, p)]),
                grafts \ {g})

\* the loop of joins `self.accesses.join_access_path(g.ap, g.node)`
RECURSIVE join_each_node(_, _)
join_each_node(trie, grafts) ==
    IF grafts = {} THEN trie
    ELSE LET g == CHOOSE x \in grafts : TRUE
         IN join_each_node(join_access_path("Access", trie, g.ap, g.node),
                           grafts \ {g})

\* faulty variant: the returned node is joined into what the return slot held
RECURSIVE bind_returns_joined(_, _, _, _)
bind_returns_joined(locals, new_callee_locals, returns, i) ==
    IF i > Len(returns) THEN locals
    ELSE bind_returns_joined(
            IF <<Return(i - 1)>> \in DOMAIN new_callee_locals
            THEN join_access_path("AbsAddr", locals, <<Local(returns[i])>>,
                                  get_node(new_callee_locals, <<Return(i - 1)>>))
            ELSE locals,
            new_callee_locals, returns, i + 1)

\* faulty variant: all the callee's substituted locals are joined into the
\* caller's locals
bind_returns_all(locals, new_callee_locals, returns, i) ==
    Trie_join("AbsAddr", locals, new_callee_locals).val

\* step (4) of apply_summary: return values bound in the caller's locals
RECURSIVE bind_returns(_, _, _, _)
bind_returns(locals, new_callee_locals, returns, i) ==
    IF i > Len(returns) THEN locals
    ELSE bind_returns(
            IF <<Return(i - 1)>> \in DOMAIN new_callee_locals
            THEN bind_local_node(locals, returns[i],
                                 get_node(new_callee_locals, <<Return(i - 1)>>))
            ELSE locals,
            new_callee_locals, returns, i + 1)

\* faulty variant: the formal's node is joined at the formal's own root
FormalGrafts_unrooted(new_callee_accesses, actual_values) ==
    {[ap |-> <<Local(i - 1)>>,
      node |-> get_node(new_callee_accesses, <<Local(i - 1)>>)] :
        i \in {j \in 1 .. Len(actual_values) :
                  <<Local(j - 1)>> \in DOMAIN new_callee_accesses}}

\* the (access path, node) pairs step (3) joins into the caller's accesses
FormalGrafts(new_callee_accesses, actual_values) ==
    UNION {LET node == get_node(new_callee_accesses, <<Local(i - 1)>>)
           IN UNION {IF v.kind = "Footprint"
                     THEN {[ap |-> v.path, node |-> node]}
                     ELSE {[ap |-> <<GlobalRoot(v.c, ElemTy(o))>>,
                            node |-> child(node, o)] :
                              o \in {x \in children(node) :
                                        IsGlobalOffset(x)}} :
                        v \in actual_values[i]} :
              i \in {j \in 1 .. Len(actual_values) :
                        <<Local(j - 1)>> \in DOMAIN new_callee_accesses}}

\* faulty variant: offsets that are not global are skipped without a failure
BadOffset_ignored(new_callee_accesses, actual_values) == FALSE

\* step (3) panics: a non-global offset directly under a constant address
BadOffset(new_callee_accesses, actual_values) ==
    \E i \in 1 .. Len(actual_values) :
        /\ <<Local(i - 1)>> \in DOMAIN new_callee_accesses
        /\ \E v \in actual_values[i] : v.kind = "Constant"
        /\ \E o \in children(get_node(new_callee_accesses, <<Local(i - 1)>>)) :
              ~IsGlobalOffset(o)

\* faulty variant: the callee's accesses are used as stored, types not instantiated
callee_accesses_as_stored(callee_summary, type_actuals) ==
    callee_summary.accesses

\* step (2): the callee's accesses with the call's type arguments
callee_accesses_at_call(callee_summary, type_actuals) ==
    substitute_footprint_skip_data(callee_summary.accesses, type_actuals)

\* faulty variant: the nodes at the callee's formals stay in its accesses
remove_formals_keep(new_callee_accesses, formals) == new_callee_accesses

\* step (3): new_callee_accesses.0.remove(&formal_i) for every formal
remove_formals(new_callee_accesses, formals) ==
    Stored([p \in {q \in DOMAIN new_callee_accesses : q[1] \notin formals}
               |-> new_callee_accesses[p]])

apply_summary(st, callee_summary, actuals, type_actuals, returns) ==
    LET actual_values ==
            [i \in 1 .. Len(actuals) |->
                IF get_local(st.locals, actuals[i]) = {} THEN {}
                ELSE TheData(get_local(st.locals, actuals[i]))]
        new_callee_locals ==
            substitute_footprint(callee_summary.locals, actual_values,
                                 type_actuals)
        new_callee_accesses ==
            callee_accesses_at_call(callee_summary, type_actuals)
        formals == {Local(i - 1) : i \in 1 .. Len(actual_values)}
        rest == remove_formals(new_callee_accesses, formals)
        joined == join_each_node(st.accesses,
                      FormalGrafts(new_callee_accesses, actual_values))
    IN IF BadOffset(new_callee_accesses, actual_values)
       THEN Fail(st, "Bad offset type for address base")
       ELSE [st EXCEPT
                !.locals = bind_returns(st.locals, new_callee_locals, returns, 1),
                !.accesses = Trie_join("Access", joined, rest).val]

\* ---------------------------------------------------------------------------
\* Native function models

\* faulty variant: a native function without a model is skipped
unsupported_native_skip(st, module_name, fun_name) == st

\* the default arm: unimplemented!("Unsupported native function ...")
unsupported_native(st, module_name, fun_name) ==
    [st EXCEPT !.status = "failed",
               !.err = <<"Unsupported native function", module_name, fun_name>>]

call_native_function(st, module_name, fun_name, args, rets) ==
    LET name == <<module_name, fun_name>>
        bound == local_exists(st.locals, args[1])
    IN CASE name = <<"BCS", "to_bytes">> ->
              IF bound THEN record_access(st, args[1], "Read") ELSE st
         [] name = <<"Signer", "borrow_address">> ->
              IF bound
              THEN copy_local(record_access(st, args[1], "Borrow"),
                              rets[1], args[1])
              ELSE st
         [] name \in {<<"Vector", "borrow_mut">>, <<"Vector", "borrow">>} ->
              IF bound
              THEN assign_offset(
                       access_offset(st, args[1], VectorIndex, "Read"),
                       rets[1], args[1], VectorIndex, "Borrow")
              ELSE st
         [] name \in {<<"Vector", "length">>, <<"Vector", "is_empty">>} ->
              IF bound THEN record_access(st, args[1], "Read") ELSE st
         [] name = <<"Vector", "pop_back">> ->
              IF bound
              THEN assign_offset(
                       access_offset(
                           access_offset(st, args[1], VectorIndex, "Read"),
                           args[1], VectorIndex, "Write"),
                       rets[1], args[1], VectorIndex, "Read")
              ELSE st
         [] name \in {<<"Vector", "push_back">>, <<"Vector", "append">>,
                      <<"Vector", "swap">>} ->
              IF bound
              THEN access_offset(
                       access_offset(st, args[1], VectorIndex, "Read"),
                       args[1], VectorIndex, "Write")
              ELSE st
         [] name = <<"Vector", "contains">> ->
              IF bound THEN record_access(st, args[1], "Read") ELSE st
         [] name = <<"DiemAccount", "create_signer">> ->
              IF bound
              THEN copy_local(record_access(st, args[1], "Read"),
                              rets[1], args[1])
              ELSE st
         [] name \in {<<"Vector", "empty">>, <<"Vector", "destroy_empty">>,
                      <<"Event", "write_to_event_store">>,
                      <<"Hash", "sha3_256">>, <<"Hash", "sha2_256">>,
                      <<"Signature", "ed25519_validate_pubkey">>,
                      <<"Signature", "ed25519_verify">>} -> st
         [] OTHER -> unsupported_native(st, module_name, fun_name)

\* ---------------------------------------------------------------------------
\* Transfer function.  An instruction is a record: op, the result slot ret,
\* the operand slots a (args[0]) and b (args[1]), the type argument ty, the
\* called function (m, f) and the constant c.

Instr(op, ret, a, b, ty, m, f, c) ==
    [op |-> op, ret |-> ret, a |-> a, b |-> b, ty |-> ty, m |-> m, f |-> f,
     c |-> c]

\* BorrowGlobal, after add_global_access: the result is bound to a/R<ty>
borrow_global(st, ret, a, ty) ==
    LET addrs == TheData(get_local(st.locals, a))
        extended == {Append(ap, GlobalOffset(ty)) : ap \in footprint_paths(addrs)}
        extended_aps ==
            {Footprint(ap) : ap \in extended}
            \cup {Footprint(<<GlobalRoot(v.c, ty)>>) :
                     v \in {w \in addrs : w.kind = "Constant"}}
    IN [st EXCEPT
           !.locals = bind_local(update_each(st.locals, extended, {}), ret,
                                 extended_aps),
           !.accesses = update_each(st.accesses, extended, {"Borrow"})]

\* faulty variant: the destination keeps its binding when the source has none
Assign_keep(st, lhs, rhs) ==
    IF get_local(st.locals, rhs) # {}
    THEN [st EXCEPT !.locals =
             bind_local(st.locals, lhs, TheData(get_local(st.locals, rhs)))]
    ELSE st

\* the arm Assign(lhs, rhs) of execute
Assign(st, lhs, rhs) ==
    IF get_local(st.locals, rhs) # {}
    THEN [st EXCEPT !.locals =
             bind_local(st.locals, lhs, TheData(get_local(st.locals, rhs)))]
    ELSE [st EXCEPT !.locals = remove_local(st.locals, lhs)]

execute_with(Cache, st, ins) ==
    CASE ins.op = "BorrowField" ->
           IF local_exists(st.locals, ins.a)
           THEN assign_offset(st, ins.ret, ins.a, Field(ins.c), "Borrow")
           ELSE st
      [] ins.op = "ReadRef" ->
           IF local_exists(st.locals, ins.a)
           THEN copy_local(record_access(st, ins.a, "Read"), ins.ret, ins.a)
           ELSE st
      [] ins.op = "WriteRef" ->
           LET s1 == record_access(st, ins.a, "Write")
           IN IF s1.status = "failed" THEN s1 ELSE write_ref(s1, ins.a, ins.b)
      [] ins.op \in {"FreezeRef", "BorrowLoc"} ->
           IF local_exists(st.locals, ins.a)
           THEN copy_local(st, ins.ret, ins.a)
           ELSE st
      [] ins.op = "BorrowGlobal" ->
           LET s1 == add_global_access(st, ins.a, ins.ty, "Borrow")
           IN IF s1.status = "failed" THEN s1
              ELSE borrow_global(s1, ins.ret, ins.a, ins.ty)
      [] ins.op = "MoveFrom" ->
           LET s1 == add_global_access(st, ins.a, ins.ty, "Write")
           IN IF s1.status = "failed" THEN s1
              ELSE remove_global(s1, ins.a, ins.ty)
      [] ins.op = "MoveTo" -> add_global_access(st, ins.b, ins.ty, "Write")
      [] ins.op = "Exists" -> add_global_access(st, ins.a, ins.ty, "Read")
      [] ins.op = "Function" ->
           IF <<ins.m, ins.f>> \in DOMAIN Cache
           THEN apply_summary(st, Cache[<<ins.m, ins.f>>], <<ins.a>>,
                              <<ins.ty>>, <<ins.ret>>)
           ELSE call_native_function(st, ins.m, ins.f, <<ins.a>>, <<ins.ret>>)
      [] ins.op = "Destroy" ->
           [st EXCEPT !.locals = remove_local(st.locals, ins.a)]
      [] ins.op \in {"Eq", "Neq"} ->
           LET s1 == IF local_exists(st.locals, ins.a)
                     THEN record_access(st, ins.a, "Read") ELSE st
           IN IF local_exists(s1.locals, ins.b)
              THEN record_access(s1, ins.b, "Read") ELSE s1
      [] ins.op \in {"Pack", "Unpack", "Add"} -> st
      [] ins.op = "Load" ->
           [st EXCEPT !.locals = bind_local(st.locals, ins.ret,
                                            AbsAddr_constant(ins.c))]
      [] ins.op = "LoadU64" -> st
      [] ins.op = "Assign" -> Assign(st, ins.ret, ins.a)
      [] ins.op = "Ret" ->
           IF get_local(st.locals, ins.a) # {}
           THEN [st EXCEPT !.locals =
                    bind_return(st.locals, 0,
                                TheData(get_local(st.locals, ins.a)))]
           ELSE st
      [] ins.op \in {"Abort", "Nop"} -> st
      [] OTHER -> Fail(st, "unsupported oper")

\* ---------------------------------------------------------------------------
\* Summaries

\* faulty variant: parameters without offsets are kept
to_summary_keep_parameters(state) ==
    [state EXCEPT !.locals =
        Stored([p \in {q \in DOMAIN state.locals :
                         q[1] \notin {Local(i) : i \in NonParameterLocals}}
                   |-> state.locals[p]])]

to_summary(state) ==
    LET l1 == Stored([p \in {q \in DOMAIN state.locals :
                         q[1] \notin {Local(i) : i \in NonParameterLocals}}
                  |-> state.locals[p]])
        empty == {i \in Params :
                     /\ <<Local(i)>> \in DOMAIN l1
                     /\ children(get_node(l1, <<Local(i)>>)) = {}}
    IN [state EXCEPT !.locals =
           Stored([p \in {q \in DOMAIN l1 :
                            q[1] \notin {Local(i) : i \in empty}}
                      |-> l1[p]])]

\* ReadWriteSetProcessor::process: every formal bound to its own footprint
InitialState ==
    [accesses |-> EmptyTrie,
     locals |-> Stored([p \in {<<Local(i)>> : i \in Params} |->
                           {AbsAddr_formal(ElemIdx(p[1]))}]),
     status |-> "run",
     err |-> <<"", "", "">>]

\* ---------------------------------------------------------------------------
\* The program around the analysed procedure: callees analysed before it
\* (bottom-up), native functions, and one address constant.

AddrConst == 2748
FieldV == 0

I_BorrowField(ret, a) == Instr("BorrowField", ret, a, 0, 0, "", "", FieldV)
I_ReadRef(ret, a) == Instr("ReadRef", ret, a, 0, 0, "", "", 0)
I_WriteRef(a, b) == Instr("WriteRef", 0, a, b, 0, "", "", 0)
I_BorrowGlobal(ret, a, ty) == Instr("BorrowGlobal", ret, a, 0, ty, "", "", 0)
I_MoveFrom(a, ty) == Instr("MoveFrom", 0, a, 0, ty, "", "", 0)
I_Exists(a, ty) == Instr("Exists", 0, a, 0, ty, "", "", 0)
I_Load(ret) == Instr("Load", ret, 0, 0, 0, "", "", AddrConst)
I_Ret(a) == Instr("Ret", 0, a, 0, 0, "", "", 0)
I_Call(m, f, ret, a, ty) == Instr("Function", ret, a, 0, ty, m, f, 0)

\* bytecode of the callees, each with one formal (slot 0) and one type
\* parameter
CalleeCode ==
    (<<"M", "write">> :> <<I_WriteRef(0, 0)>>)
    @@ (<<"M", "write_field">> :> <<I_BorrowField(1, 0), I_WriteRef(1, 1)>>)
    @@ (<<"M", "move_from">> :> <<I_MoveFrom(0, TypeParam)>>)
    @@ (<<"M", "exists_at_const">> :> <<I_Load(1), I_Exists(1, TypeParam)>>)
    @@ (<<"M", "borrow_global">> :>
            <<I_BorrowGlobal(1, 0, TypeParam), I_Ret(1)>>)
    @@ (<<"M", "read">> :> <<I_ReadRef(1, 0), I_Ret(1)>>)
    @@ (<<"M", "vector_write">> :>
            <<I_Call("Vector", "borrow_mut", 1, 0, 0), I_WriteRef(1, 1)>>)
    @@ (<<"M", "write_global_field">> :>
            <<I_BorrowGlobal(1, 0, TypeParam), I_BorrowField(1, 1),
              I_WriteRef(1, 1)>>)

NoCache == << >>

\* the transfer function applied to the instructions of a block in order
RECURSIVE execute_block(_, _, _)
execute_block(Cache, st, code) ==
    IF code = << >> \/ st.status = "failed" THEN st
    ELSE execute_block(Cache, execute_with(Cache, st, Head(code)), Tail(code))

\* summaries of the callees, as the scheduler has stored them
SummaryCache ==
    Stored([fn \in DOMAIN CalleeCode |->
        to_summary(execute_block(NoCache, InitialState, CalleeCode[fn]))])

\* the native functions the procedure may call: those with a model, and
\* Vector::remove, which has none
NativeFunctions ==
    {<<"BCS", "to_bytes">>, <<"Signer", "borrow_address">>,
     <<"Vector", "borrow_mut">>, <<"Vector", "borrow">>,
     <<"Vector", "length">>, <<"Vector", "is_empty">>,
     <<"Vector", "pop_back">>, <<"Vector", "push_back">>,
     <<"Vector", "append">>, <<"Vector", "swap">>, <<"Vector", "contains">>,
     <<"DiemAccount", "create_signer">>, <<"Vector", "empty">>,
     <<"Vector", "destroy_empty">>, <<"Event", "write_to_event_store">>,
     <<"Hash", "sha3_256">>, <<"Hash", "sha2_256">>,
     <<"Signature", "ed25519_validate_pubkey">>,
     <<"Signature", "ed25519_verify">>, <<"Vector", "remove">>}

\* instructions of the analysed (monomorphic) procedure
TransferInstrs ==
    {Instr(op, ret, a, 0, 0, "", "", FieldV) :
        op \in {"BorrowField", "ReadRef", "FreezeRef", "BorrowLoc", "Assign"},
        ret \in Slots, a \in Slots}
    \cup {Instr(op, 0, a, b, 0, "", "", 0) :
        op \in {"WriteRef", "Eq", "Neq"}, a \in Slots, b \in Slots}
    \cup {Instr("BorrowGlobal", ret, a, 0, ty, "", "", 0) :
        ret \in Slots, a \in Slots, ty \in ConcreteTypes}
    \cup {Instr(op, 0, a, 0, ty, "", "", 0) :
        op \in {"MoveFrom", "Exists"}, a \in Slots, ty \in ConcreteTypes}
    \cup {Instr("MoveTo", 0, 0, b, ty, "", "", 0) :
        b \in Slots, ty \in ConcreteTypes}
    \cup {Instr(op, 0, a, 0, 0, "", "", 0) :
        op \in {"Destroy", "Ret"}, a \in Slots}
    \cup {Instr("Load", ret, 0, 0, 0, "", "", AddrConst) : ret \in Slots}
    \cup {Instr(op, 0, 0, 0, 0, "", "", 0) :
        op \in {"Pack", "LoadU64", "Abort", "GetField"}}

CallInstrs ==
    {I_Call(fn[1], fn[2], ret, a, ty) :
        fn \in DOMAIN CalleeCode, ret \in Slots, a \in Slots,
        ty \in ConcreteTypes}

NativeInstrs ==
    {I_Call(fn[1], fn[2], ret, a, 0) :
        fn \in NativeFunctions, ret \in Slots, a \in Slots}

\* user procedures called by the analysed procedure that have no stored
\* summary: a callee in the same call-graph cycle, or the procedure itself
PendingFunctions == {<<"M", "pending">>}

PendingInstrs ==
    {I_Call(fn[1], fn[2], ret, a, ty) :
        fn \in PendingFunctions, ret \in Slots, a \in Slots,
        ty \in ConcreteTypes}

\* ---------------------------------------------------------------------------
\* State

VARIABLES
    \* one analysis run (the transfer function over straight-line code)
    accesses,   \* ReadWriteSetState.accesses of the analysed procedure
    locals,     \* ReadWriteSetState.locals of the analysed procedure
    status,     \* "run", "failed" (a panic) or "done" (summary produced)
    err,        \* the panic message and the function it names
    steps,      \* instructions executed so far
    summary,    \* the summary stored for the procedure, once status = "done"
    cache,      \* SummaryCache: the stored summaries of the callees
    calls,      \* log: the summaries applied so far, as
                \* <<function, type argument, address set of the actual>>
    \* one cell of the access lattice and the values joined into it
    jself,      \* the cell `self` of Access::join
    ja, jb, jc, \* operands: jself starts as ja
    jlog,       \* the operands joined into jself so far, in order
    jres,       \* JoinResult of the last join
    \* the fixpoint engine over the control-flow graph of one procedure
    code,       \* the bytecode of each basic block
    pre,        \* state map: the state at the entry of each block
    post,       \* state map: the state at the exit of each block
    work_list,  \* blocks to (re)analyse, in order
    cur_block,  \* the block whose post state is being propagated
    to_propagate, \* successors of cur_block not yet joined into
    fstatus,    \* "run", "stable" (work list empty) or "failed" (a panic)
    parity      \* flips at every step of the engine's loop

analysisVars == <<accesses, locals, status, err, steps, summary, cache, calls>>
latticeVars == <<jself, ja, jb, jc, jlog, jres>>
fixVars == <<code, pre, post, work_list, cur_block, to_propagate, fstatus,
             parity>>
vars == <<analysisVars, latticeVars, fixVars>>

execute(st, ins) == execute_with(cache, st, ins)

State == [accesses |-> accesses, locals |-> locals, status |-> status,
          err |-> err]

NoSummary == [accesses |-> EmptyTrie, locals |-> EmptyTrie]

AnalysisInit ==
    /\ accesses = InitialState.accesses
    /\ locals = InitialState.locals
    /\ status = "run"
    /\ err = InitialState.err
    /\ steps = 0
    /\ summary = NoSummary
    /\ cache = SummaryCache
    /\ calls = {}

LatticeIdle ==
    /\ jself = "Borrow"
    /\ ja = "Borrow"
    /\ jb = "Borrow"
    /\ jc = "Borrow"
    /\ jlog = << >>
    /\ jres = "Unchanged"

\* control-flow graph: a branch at block 0, the arms 1 and 2 merge at
\* block 3, and block 3 jumps back to block 1 (a loop) or leaves
Blocks == {0, 1, 2, 3}

successors(b) ==
    CASE b = 0 -> <<1, 2>>
      [] b = 1 -> <<3>>
      [] b = 2 -> <<3>>
      [] OTHER -> <<1>>

\* a block the engine has no state for yet
Unvisited ==
    [accesses |-> EmptyTrie, locals |-> EmptyTrie, status |-> "unvisited",
     err |-> <<"", "", "">>]

FixIdle ==
    /\ code = [b \in Blocks |-> << >>]
    /\ pre = [b \in Blocks |-> Unvisited]
    /\ post = [b \in Blocks |-> Unvisited]
    /\ work_list = << >>
    /\ cur_block = 0
    /\ to_propagate = << >>
    /\ fstatus = "stable"
    /\ parity = FALSE

\* ---------------------------------------------------------------------------
\* Specification Spec: one procedure analysed instruction by instruction,
\* then summarised

Init == AnalysisInit /\ LatticeIdle /\ FixIdle

Step(ins) ==
    /\ status = "run"
    /\ steps < MaxSteps
    /\ \E s \in {execute(State, ins)} :
          /\ accesses' = s.accesses
          /\ locals' = s.locals
          /\ status' = s.status
          /\ err' = s.err
    /\ steps' = steps + 1
    /\ calls' = IF ins.op = "Function" /\ <<ins.m, ins.f>> \in DOMAIN cache
                THEN calls \cup {<<ins.f, ins.ty, get_local(locals, ins.a)>>}
                ELSE calls
    /\ UNCHANGED <<summary, cache, latticeVars, fixVars>>

Transfer == \E ins \in TransferInstrs : Step(ins)

CallFunction == \E ins \in CallInstrs : Step(ins)

CallNative == \E ins \in NativeInstrs : Step(ins)

CallPending == \E ins \in PendingInstrs : Step(ins)

\* the fixpoint is over: the final state is trimmed into the summary
Summarize ==
    /\ status = "run"
    /\ summary' = [accesses |-> to_summary(State).accesses,
                   locals |-> to_summary(State).locals]
    /\ status' = "done"
    /\ UNCHANGED <<accesses, locals, err, steps, cache, calls, latticeVars,
                   fixVars>>

Next == Transfer \/ CallFunction \/ CallNative \/ CallPending \/ Summarize

Spec == Init /\ [][Next]_vars

\* ---------------------------------------------------------------------------
\* Specification SpecLattice: Access::join applied to one cell

AnalysisIdle == AnalysisInit

InitLattice ==
    /\ AnalysisIdle
    /\ FixIdle
    /\ ja \in AccessKinds
    /\ jb \in AccessKinds
    /\ jc \in AccessKinds
    /\ jself = ja
    /\ jlog = << >>
    /\ jres = "Unchanged"

\* self.join(&other)
JoinInto(other) ==
    /\ Len(jlog) < 2
    /\ \E r \in {Access_join(jself, other)} :
          /\ jself' = r.val
          /\ jres' = r.res
    /\ jlog' = Append(jlog, other)
    /\ UNCHANGED <<ja, jb, jc, analysisVars, fixVars>>

JoinB == Len(jlog) = 0 /\ JoinInto(jb)

JoinC == Len(jlog) = 1 /\ JoinInto(jc)

NextLattice == JoinB \/ JoinC

SpecLattice == InitLattice /\ [][NextLattice]_vars

\* Access::partial_cmp as the order a <= b
Leq(a, b) == partial_cmp(a, b) \in {"Less", "Equal"}

\* C1: Access join is idempotent, commutative and associative: joining an
\* operand equal to the cell leaves it as it was; the cell after a.join(b)
\* holds what b.join(a) leaves; and the cell after (a.join(b)).join(c) holds
\* what a.join(b.join(c)) leaves.
C1_JoinLaws ==
    /\ (Len(jlog) = 1 /\ jb = ja) => jself = ja
    /\ Len(jlog) = 1 => jself = Access_join(jb, ja).val
    /\ Len(jlog) = 2 => jself = Access_join(ja, Access_join(jb, jc).val).val

C1_Witness ==
    /\ Len(jlog) = 2
    /\ ja = "Read" /\ jb = "Write" /\ jc = "Borrow"
    /\ jself = "ReadWriteBorrow"

\* C2: Access join is the least upper bound of the order of partial_cmp
\* (Borrow below Read and Write, both below ReadWriteBorrow, Read and Write
\* incomparable): Borrow is neutral, Read with Write gives ReadWriteBorrow,
\* ReadWriteBorrow absorbs, and the result is an upper bound of both operands
\* that lies below every other upper bound.
C2_JoinIsLub ==
    /\ partial_cmp("Read", "Write") = "None"
    /\ partial_cmp("Write", "Read") = "None"
    /\ \A k \in AccessKinds \ {"Borrow"} :
          partial_cmp("Borrow", k) = "Less" /\ partial_cmp(k, "Borrow") = "Greater"
    /\ \A k \in AccessKinds \ {"ReadWriteBorrow"} :
          /\ partial_cmp(k, "ReadWriteBorrow") = "Less"
          /\ partial_cmp("ReadWriteBorrow", k) = "Greater"
    /\ Len(jlog) = 1 =>
          /\ ja = "Borrow" => jself = jb
          /\ jb = "Borrow" => jself = ja
          /\ {ja, jb} = {"Read", "Write"} => jself = "ReadWriteBorrow"
          /\ "ReadWriteBorrow" \in {ja, jb} => jself = "ReadWriteBorrow"
          /\ Leq(ja, jself)
          /\ Leq(jb, jself)
          /\ \A u \in AccessKinds : (Leq(ja, u) /\ Leq(jb, u)) => Leq(jself, u)

C2_Witness ==
    /\ Len(jlog) = 1
    /\ ja = "Write" /\ jb = "Read"
    /\ jself = "ReadWriteBorrow"

\* ---------------------------------------------------------------------------
\* Specification SpecFix: the worklist engine driving execute and
\* ReadWriteSetState::join over the control-flow graph to a fixpoint

\* the blocks a procedure is built from: s0 is the formal (a reference to a
\* struct with field f), s1 a local
BlockCodes ==
    {<< >>,
     <<I_BorrowField(1, 0)>>,
     <<I_BorrowField(1, 0), I_WriteRef(1, 0)>>,
     <<I_BorrowField(1, 0), I_ReadRef(1, 1)>>}

InitFix ==
    /\ AnalysisIdle
    /\ LatticeIdle
    /\ code \in [Blocks -> BlockCodes]
    /\ pre = [b \in Blocks |-> IF b = 0 THEN InitialState ELSE Unvisited]
    /\ post = [b \in Blocks |-> Unvisited]
    /\ work_list = <<0>>
    /\ cur_block = 0
    /\ to_propagate = << >>
    /\ fstatus = "run"
    /\ parity = FALSE

\* pop a block and run the transfer function over its instructions
ExecuteBlock ==
    /\ fstatus = "run"
    /\ to_propagate = << >>
    /\ work_list # << >>
    /\ \E b \in {Head(work_list)} :
       \E p \in {execute_block(cache, pre[b], code[b])} :
          /\ work_list' = Tail(work_list)
          /\ cur_block' = b
          /\ post' = [post EXCEPT ![b] = p]
          /\ IF p.status = "failed"
             THEN fstatus' = "failed" /\ to_propagate' = << >>
             ELSE fstatus' = fstatus /\ to_propagate' = successors(b)
    /\ parity' = ~parity
    /\ UNCHANGED <<code, pre, analysisVars, latticeVars>>

\* a successor without a state takes the post state and is queued
PropagateNew ==
    /\ fstatus = "run"
    /\ to_propagate # << >>
    /\ \E next \in {Head(to_propagate)} :
          /\ pre[next].status = "unvisited"
          /\ pre' = [pre EXCEPT ![next] = post[cur_block]]
          /\ work_list' = Append(work_list, next)
    /\ to_propagate' = Tail(to_propagate)
    /\ parity' = ~parity
    /\ UNCHANGED <<code, post, cur_block, fstatus, analysisVars, latticeVars>>

\* the post state is joined into the successor's state; the successor is
\* queued again when the join reports Changed
PropagateJoin ==
    /\ fstatus = "run"
    /\ to_propagate # << >>
    /\ \E next \in {Head(to_propagate)} :
          /\ pre[next].status # "unvisited"
          /\ \E r \in {ReadWriteSetState_join(pre[next], post[cur_block])} :
                /\ pre' = [pre EXCEPT ![next] = r.val]
                /\ work_list' = IF r.res = "Changed"
                                THEN Append(work_list, next)
                                ELSE work_list
    /\ to_propagate' = Tail(to_propagate)
    /\ parity' = ~parity
    /\ UNCHANGED <<code, post, cur_block, fstatus, analysisVars, latticeVars>>

\* the work list is empty: the state map is the result
Stabilize ==
    /\ fstatus = "run"
    /\ to_propagate = << >>
    /\ work_list = << >>
    /\ fstatus' = "stable"
    /\ parity' = ~parity
    /\ UNCHANGED <<code, pre, post, work_list, cur_block, to_propagate,
                   analysisVars, latticeVars>>

NextFix == ExecuteBlock \/ PropagateNew \/ PropagateJoin \/ Stabilize

SpecFix == InitFix /\ [][NextFix]_vars

\* the engine is a loop that always takes its next step: while it runs,
\* the step that flips parity (every step of NextFix does) is taken
LoopStep == fstatus = "run" /\ parity' = ~parity

SpecFixFair == SpecFix /\ WF_parity(LoopStep)

\* ---------------------------------------------------------------------------
\* Properties of the analysis run (specification Spec)

\* the transition is instruction ins executed by the transfer function
Took(ins) ==
    /\ status = "run"
    /\ steps < MaxSteps
    /\ steps' = steps + 1
    /\ \E s \in {execute(State, ins)} :
          /\ accesses' = s.accesses
          /\ locals' = s.locals
          /\ status' = s.status
          /\ err' = s.err

\* the transition is the call ins of a summarized function
TookCall(ins) ==
    /\ <<ins.f, ins.ty, get_local(locals, ins.a)>> \in calls'
    /\ Took(ins)

\* optional access data: new is at least old in the access lattice
GeqOpt(new, old) ==
    old = {} \/ (new # {} /\ Leq(TheData(old), TheData(new)))

\* every path of old is a path of new with a kind at least as large
Grows(old, new) ==
    \A p \in DOMAIN old : p \in DOMAIN new /\ GeqOpt(new[p], old[p])

HasWrite(trie, p) ==
    /\ p \in DOMAIN trie
    /\ trie[p] # {}
    /\ TheData(trie[p]) \in {"Write", "ReadWriteBorrow"}

\* address set of slot i ({} when untracked)
ValueOf(i) == IF get_local(locals, i) = {} THEN {} ELSE TheData(get_local(locals, i))

\* the paths on which a summary records Write below formal 0
WritePathsOfFormal0(callee_summary) ==
    {q \in DOMAIN callee_summary.accesses :
        q[1] = Local(0) /\ callee_summary.accesses[q] = {"Write"}}

\* C3: accesses only grow under the transfer function: after every
\* instruction that does not fail, each path recorded before is still
\* recorded, with a kind at least as large as before.
C3_AccessesOnlyGrow ==
    [][status' = "run" => Grows(accesses, accesses')]_vars

\* C4 as claimed: after a call whose callee records Write on formal(0)/o1..on
\* and whose actual holds Footprint(P), the caller has Write or
\* ReadWriteBorrow at P/o1..on, the very same offsets.
C4_WriteAtSameOffsets ==
    [][\A ins \in CallInstrs :
          (status' = "run" /\ TookCall(ins)) =>
              \A q \in WritePathsOfFormal0(cache[<<ins.m, ins.f>>]) :
                  \A P \in footprint_paths(ValueOf(ins.a)) :
                      HasWrite(accesses', P \o Tail(q))]_vars

\* C4 amended: composition soundness with the offsets instantiated: after such
\* a call the caller has Write or ReadWriteBorrow at P/o1'..on', where oi' is
\* oi with the callee's type parameter replaced by the call's type argument.
C4_WriteAtInstantiatedOffsets ==
    [][\A ins \in CallInstrs :
          (status' = "run" /\ TookCall(ins)) =>
              \A q \in WritePathsOfFormal0(cache[<<ins.m, ins.f>>]) :
                  \A P \in footprint_paths(ValueOf(ins.a)) :
                      HasWrite(accesses',
                               P \o substitute_path_types(Tail(q), <<ins.ty>>))]_vars

\* a generic callee that moves R<T> from its formal was applied at T1 to the
\* caller's own formal: Write is recorded at formal/R<T1>, nothing at R<T>
C4_Witness ==
    /\ status = "run"
    /\ <<"move_from", 1, {AbsAddr_formal(0)}>> \in calls
    /\ HasWrite(accesses, <<Local(0), GlobalOffset(1)>>)
    /\ <<Local(0), GlobalOffset(TypeParam)>> \notin DOMAIN accesses

\* C5: apply_summary is monotone on the caller's accesses: after every call
\* that completes, each path recorded before is still recorded, with a kind
\* at least as large as before, also when summaries are applied repeatedly.
C5_ApplySummaryMonotone ==
    [][\A ins \in CallInstrs :
          (status' = "run" /\ TookCall(ins)) => Grows(accesses, accesses')]_vars

\* a reading callee, then a writing callee on the same formal: both kept
C5_Witness ==
    /\ status = "run"
    /\ <<"read", 1, {AbsAddr_formal(0)}>> \in calls
    /\ <<"write", 1, {AbsAddr_formal(0)}>> \in calls
    /\ accesses[<<Local(0)>>] = {"ReadWriteBorrow"}

HasTypeParam(ap) == \E n \in 1 .. Len(ap) : ElemTy(ap[n]) = TypeParam

\* the caller's paths for the callee's path q in a call with type argument ty
\* and the address set actual
CallerPaths(q, ty, actual) ==
    LET inst == substitute_path_types(q, <<ty>>)
    IN IF inst[1] = Local(0)
       THEN footprint_paths(prepend_addrs(Tail(inst), actual))
       ELSE {inst}

\* C6: generic instantiation is not conflated: when a generic callee that
\* records an access on a path carrying its type parameter has been applied
\* with the same actual at two different type arguments, the caller records
\* that access on two distinct paths, one per type argument, and none of the
\* caller's paths carries the type parameter.
C6_InstantiationsDistinct ==
    status # "failed" =>
        /\ \A p \in DOMAIN accesses : ~HasTypeParam(p)
        /\ \A c1 \in calls : \A c2 \in calls :
              (c1[1] = c2[1] /\ c1[2] # c2[2] /\ c1[3] = c2[3] /\ c1[3] # {}) =>
                  \A q \in {r \in DOMAIN cache[<<"M", c1[1]>>].accesses :
                              /\ HasTypeParam(r)
                              /\ cache[<<"M", c1[1]>>].accesses[r] # {}} :
                      LET t1 == CallerPaths(q, c1[2], TheData(c1[3]))
                          t2 == CallerPaths(q, c2[2], TheData(c2[3]))
                      IN /\ t1 \cap t2 = {}
                         /\ \A p \in t1 \cup t2 :
                               p \in DOMAIN accesses /\ accesses[p] # {}
                         /\ (TheData(c1[3]) # {} \/ q[1] # Local(0)) =>
                               (t1 # {} /\ t2 # {})

C6_Witness ==
    /\ status = "run"
    /\ <<"move_from", 1, {AbsAddr_formal(0)}>> \in calls
    /\ <<"move_from", 2, {AbsAddr_formal(0)}>> \in calls
    /\ HasWrite(accesses, <<Local(0), GlobalOffset(1)>>)
    /\ HasWrite(accesses, <<Local(0), GlobalOffset(2)>>)

Roots(trie) == {p[1] : p \in DOMAIN trie}

\* C7: summary compaction: the summary has no locals binding rooted at a
\* non-parameter local slot and no parameter root without child offsets;
\* parameter roots with a child offset and return roots are kept as they
\* were in the final state.
C7_SummaryCompact ==
    status = "done" =>
        /\ \A i \in NonParameterLocals : Local(i) \notin Roots(summary.locals)
        /\ \A i \in Params :
              Local(i) \in Roots(summary.locals) =>
                  \E p \in DOMAIN summary.locals : p[1] = Local(i) /\ Len(p) > 1
        /\ \A p \in DOMAIN locals :
              (\/ ElemKind(p[1]) = 2
               \/ \E i \in Params :
                     /\ p[1] = Local(i)
                     /\ \E q \in DOMAIN locals : q[1] = Local(i) /\ Len(q) > 1)
                  => (p \in DOMAIN summary.locals /\ summary.locals[p] = locals[p])
        /\ summary.accesses = accesses

\* a bound non-parameter local and a childless parameter are dropped, the
\* return root is kept
C7_Witness ==
    /\ status = "done"
    /\ <<Local(1)>> \in DOMAIN locals
    /\ <<Local(0)>> \in DOMAIN locals
    /\ <<Local(0)>> \notin DOMAIN summary.locals
    /\ <<Return(0)>> \in DOMAIN summary.locals

\* the native model table
ModeledNatives ==
    {<<"BCS", "to_bytes">>, <<"Signer", "borrow_address">>,
     <<"Vector", "borrow_mut">>, <<"Vector", "borrow">>,
     <<"Vector", "length">>, <<"Vector", "is_empty">>,
     <<"Vector", "pop_back">>, <<"Vector", "push_back">>,
     <<"Vector", "append">>, <<"Vector", "swap">>, <<"Vector", "contains">>,
     <<"DiemAccount", "create_signer">>, <<"Vector", "empty">>,
     <<"Vector", "destroy_empty">>, <<"Event", "write_to_event_store">>,
     <<"Hash", "sha3_256">>, <<"Hash", "sha2_256">>,
     <<"Signature", "ed25519_validate_pubkey">>,
     <<"Signature", "ed25519_verify">>}

\* C8: a call to a native function that is not in the native model table
\* ends the run in a failure that names the function; the run stays failed
\* and no summary is produced for the procedure.
C8_UnmodeledNativeIsFatal ==
    /\ [][\A ins \in NativeInstrs :
             (<<ins.m, ins.f>> \notin ModeledNatives /\ Took(ins)) =>
                 /\ status' = "failed"
                 /\ err' = <<"Unsupported native function", ins.m, ins.f>>]_vars
    /\ [][status = "failed" => (status' = "failed" /\ summary' = NoSummary)]_vars
    /\ [](status = "failed" => summary = NoSummary)

C8_Witness ==
    /\ status = "failed"
    /\ err = <<"Unsupported native function", "Vector", "remove">>
    /\ summary = NoSummary

\* ---------------------------------------------------------------------------
\* Properties of the fixpoint engine (specifications SpecFix, SpecFixFair)

\* the least upper bound of two access kinds in the order of partial_cmp
Lub(a, b) ==
    CHOOSE c \in AccessKinds :
        /\ Leq(a, c)
        /\ Leq(b, c)
        /\ \A d \in AccessKinds : (Leq(a, d) /\ Leq(b, d)) => Leq(c, d)

LubOpt(x, y) ==
    IF x = {} THEN y
    ELSE IF y = {} THEN x
    ELSE {Lub(TheData(x), TheData(y))}

FieldPath == <<Local(0), Field(FieldV)>>

\* C9: at a control-flow merge the accesses of the joined state are the
\* pointwise lattice join of the accesses of the stored state and of the
\* incoming state: a path of only one of them keeps its kind, a path of both
\* gets the least upper bound of the two kinds.
C9_MergeIsPointwiseJoin ==
    [][(/\ fstatus = "run"
        /\ to_propagate # << >>
        /\ to_propagate' = Tail(to_propagate)
        /\ pre[Head(to_propagate)].status # "unvisited") =>
            LET next == Head(to_propagate)
                a == pre[next].accesses
                b == post[cur_block].accesses
                m == pre'[next].accesses
            IN /\ DOMAIN m = DOMAIN a \cup DOMAIN b
               /\ \A p \in DOMAIN m :
                     m[p] = LubOpt(NodeData(a, p), NodeData(b, p))]_vars

\* one arm borrowed the field, the other wrote it: Write after the merge
C9_Witness ==
    /\ pre[3].status = "run"
    /\ FieldPath \in DOMAIN post[1].accesses
    /\ FieldPath \in DOMAIN post[2].accesses
    /\ FieldPath \in DOMAIN pre[3].accesses
    /\ post[1].accesses[FieldPath] = {"Borrow"}
    /\ post[2].accesses[FieldPath] = {"Write"}
    /\ pre[3].accesses[FieldPath] = {"Write"}

\* C10: the intraprocedural fixpoint terminates: the worklist iteration
\* eventually reaches a point where no join reports Changed and the work
\* list is empty (or the analysis has stopped with a failure).
C10_FixpointTerminates == <>(fstatus # "run")

\* ---------------------------------------------------------------------------
\* Properties of single instructions and native models (specification Spec)

\* the kind recorded at path p, as optional data ({} when p is not recorded)
KindAt(trie, p) == NodeData(trie, p)

\* the kind recorded at p is at least k
AtLeast(trie, p, k) ==
    KindAt(trie, p) # {} /\ Leq(k, TheData(KindAt(trie, p)))

VectorBorrowInstrs ==
    {ins \in NativeInstrs :
        ins.m = "Vector" /\ ins.f \in {"borrow_mut", "borrow"}}

WriteRefInstrs == {ins \in TransferInstrs : ins.op = "WriteRef"}

\* C11: a procedure borrows an element of the bound vector slot v with
\* Vector::borrow_mut or Vector::borrow and then writes through the returned
\* reference: afterwards the kind recorded at v-root/VectorIndex is at least
\* Read and at least Write.
C11_VectorReadAndWriteKept ==
    [][\A nat \in VectorBorrowInstrs : \A w \in WriteRefInstrs :
          (/\ steps = 1
           /\ w.a = nat.ret
           /\ local_exists(InitialState.locals, nat.a)
           /\ State = execute(InitialState, nat)
           /\ Took(w)
           /\ status' = "run") =>
              \A P \in footprint_paths(TheData(get_local(InitialState.locals,
                                                         nat.a))) :
                  /\ AtLeast(accesses', Append(P, VectorIndex), "Read")
                  /\ AtLeast(accesses', Append(P, VectorIndex), "Write")]_vars

\* ---------------------------------------------------------------------------
\* Specification SpecMid: the analysis observed in the middle of a procedure.
\* The instructions of a prelude have been executed from the initial state;
\* the remaining instructions and the summary follow as in Spec.

Preludes ==
    {<< >>,
     <<I_Load(1)>>,
     <<I_BorrowField(1, 0), I_WriteRef(1, 0)>>,
     <<I_BorrowGlobal(1, 0, 1), I_WriteRef(1, 0)>>,
     <<I_Load(1), I_BorrowGlobal(0, 1, 1), I_WriteRef(0, 1)>>,
     <<I_Call("Vector", "borrow_mut", 1, 0, 0), I_ReadRef(1, 1)>>}

InitMid ==
    /\ \E prelude \in Preludes :
         \E s \in {execute_block(SummaryCache, InitialState, prelude)} :
            /\ accesses = s.accesses
            /\ locals = s.locals
            /\ status = s.status
            /\ err = s.err
    /\ steps = MaxSteps - 1
    /\ summary = NoSummary
    /\ cache = SummaryCache
    /\ calls = {}
    /\ LatticeIdle
    /\ FixIdle

SpecMid == InitMid /\ [][Next]_vars

\* the access path of resource R<ty> at the address v: the footprint path
\* extended by the global offset, or the global root of a constant
ResourcePath(v, ty) ==
    IF v.kind = "Footprint" THEN v.path \o <<GlobalOffset(ty)>>
    ELSE <<GlobalRoot(v.c, ty)>>

MoveFromInstrs == {ins \in TransferInstrs : ins.op = "MoveFrom"}

\* C12: MoveFrom<R>(a) records Write or stronger at the resource path of
\* every address in a's address set, and afterwards locals holds no binding
\* at any of those resource paths.
C12_MoveFromWritesAndErases ==
    [][\A ins \in MoveFromInstrs :
          (Took(ins) /\ local_exists(locals, ins.a)) =>
              /\ status' = "run"
              /\ \A v \in ValueOf(ins.a) :
                    /\ HasWrite(accesses', ResourcePath(v, ins.ty))
                    /\ NodeData(locals', ResourcePath(v, ins.ty)) = {}]_vars

\* a resource that was borrowed and written through has been moved from: a
\* slot still refers to the resource path, which holds Write and no binding
C12_Witness ==
    /\ status = "run"
    /\ steps = MaxSteps
    /\ \E i \in Slots : \E v \in ValueOf(i) : \E ty \in ConcreteTypes :
          /\ HasWrite(accesses, ResourcePath(v, ty))
          /\ ResourcePath(v, ty) \in DOMAIN locals
          /\ NodeData(locals, ResourcePath(v, ty)) = {}
          /\ \E j \in Slots : Footprint(ResourcePath(v, ty)) \in ValueOf(j)

\* the summary of a procedure that moves R<T1> from the constant address
C12_WitnessConstant ==
    /\ status = "done"
    /\ <<GlobalRoot(AddrConst, 1)>> \in DOMAIN summary.accesses
    /\ summary.accesses[<<GlobalRoot(AddrConst, 1)>>] = {"Write"}

\* ---------------------------------------------------------------------------
\* Properties of apply_summary on constant addresses and return values
\* (specification Spec)

ConstantsOf(addrs) == {v.c : v \in {w \in addrs : w.kind = "Constant"}}

\* the paths a summary records strictly below formal 0
BelowFormal0(callee_summary) ==
    {q \in DOMAIN callee_summary.accesses : q[1] = Local(0) /\ Len(q) >= 2}

\* the caller's path for the callee's path q = formal(0)/g/rest when the
\* actual is the constant address c: the new root c/g followed by rest
ConstantRooted(c, q, ty) ==
    <<GlobalRoot(c, Instantiate(ElemTy(q[2]), <<ty>>))>>
        \o substitute_path_types(SubSeq(q, 3, Len(q)), <<ty>>)

\* C13: apply_summary with an actual that contains Constant(c): when every
\* direct child offset of the callee's accesses below the formal is a global
\* offset g, the child's subtree is joined into the caller's accesses at the
\* new root c/g; when some direct child is not a global offset, the call
\* ends in the failure "Bad offset type" and records nothing.
C13_ConstantActualRerooted ==
    [][\A ins \in CallInstrs :
          (TookCall(ins) /\ ConstantsOf(ValueOf(ins.a)) # {}) =>
              LET callee_summary == cache[<<ins.m, ins.f>>]
              IN IF \E q \in BelowFormal0(callee_summary) :
                       ~IsGlobalOffset(q[2])
                 THEN /\ status' = "failed"
                      /\ err'[1] = "Bad offset type for address base"
                      /\ accesses' = accesses
                      /\ locals' = locals
                 ELSE /\ status' = "run"
                      /\ \A c \in ConstantsOf(ValueOf(ins.a)) :
                         \A q \in BelowFormal0(callee_summary) :
                            LET np == ConstantRooted(c, q, ins.ty)
                            IN /\ np \in DOMAIN accesses'
                               /\ accesses'[np] =
                                    LubOpt(NodeData(accesses, np),
                                           callee_summary.accesses[q])]_vars

\* a callee that writes a field of the resource R<T> at its formal was
\* applied at T1 to the constant address: the write is at 0xABC/R<T1>/f
C13_Witness ==
    /\ status = "run"
    /\ <<"write_global_field", 1, {AbsAddr_constant(AddrConst)}>> \in calls
    /\ HasWrite(accesses, <<GlobalRoot(AddrConst, 1), Field(FieldV)>>)
    /\ AtLeast(accesses, <<GlobalRoot(AddrConst, 1)>>, "Borrow")

\* a callee that writes a field of its formal was applied to the constant
\* address: the call failed
C13_WitnessBadOffset ==
    /\ status = "failed"
    /\ <<"write_field", 1, {AbsAddr_constant(AddrConst)}>> \in calls
    /\ err[1] = "Bad offset type for address base"

\* C14: return binding: when the callee's locals, substituted with the
\* actuals of the call, hold a binding at the return root, the caller's
\* return slot holds exactly that address set after the call, whatever it
\* held before; otherwise the binding of the return slot is unchanged.
C14_ReturnBound ==
    [][\A ins \in CallInstrs :
          (status' = "run" /\ TookCall(ins)) =>
              \E new_callee_locals \in
                    {substitute_footprint(cache[<<ins.m, ins.f>>].locals,
                                          <<ValueOf(ins.a)>>, <<ins.ty>>)} :
                 IF NodeData(new_callee_locals, <<Return(0)>>) # {}
                 THEN get_local(locals', ins.ret) =
                          NodeData(new_callee_locals, <<Return(0)>>)
                 ELSE get_local(locals', ins.ret) = get_local(locals, ins.ret)]_vars

\* the first instruction stored the result of borrow_global<T1>(formal) in
\* the formal's own slot: the slot holds formal/R<T1> and no longer the formal
C14_Witness ==
    /\ status = "run"
    /\ steps = 1
    /\ <<"borrow_global", 1, {AbsAddr_formal(0)}>> \in calls
    /\ get_local(locals, 0) =
          {AbsAddr_footprint(<<Local(0), GlobalOffset(1)>>)}

\* ---------------------------------------------------------------------------
\* Properties of single instructions (specifications Spec and SpecMid)

\* instructions that change accesses by one record_access on their first
\* operand, and the kind they record
RecordAccessInstrs ==
    {ins \in TransferInstrs : ins.op \in {"ReadRef", "WriteRef"}}
    \cup {ins \in NativeInstrs :
             <<ins.m, ins.f>> \in {<<"BCS", "to_bytes">>,
                                   <<"Vector", "length">>,
                                   <<"Vector", "is_empty">>,
                                   <<"Vector", "contains">>}}

RecordedKind(ins) == IF ins.op = "WriteRef" THEN "Write" ELSE "Read"

\* C15: record_access is a weak update: for every footprint path in the
\* slot's address set the kind recorded afterwards is the join of the kind
\* recorded before and the new kind; constant addresses add or change
\* nothing, and no other path changes.
C15_RecordAccessJoins ==
    [][\A ins \in RecordAccessInstrs :
          (Took(ins) /\ local_exists(locals, ins.a)) =>
              \A p \in DOMAIN accesses \cup DOMAIN accesses'
                          \cup footprint_paths(ValueOf(ins.a)) :
                  NodeData(accesses', p) =
                      IF p \in footprint_paths(ValueOf(ins.a))
                      THEN LubOpt(NodeData(accesses, p), {RecordedKind(ins)})
                      ELSE NodeData(accesses, p)]_vars

CopyRefInstrs ==
    {ins \in TransferInstrs : ins.op \in {"FreezeRef", "BorrowLoc", "ReadRef"}}

\* C16: reference-copying instructions are the identity on address sets:
\* after FreezeRef, BorrowLoc or ReadRef with source slot s and result slot
\* d, the binding of d is the binding s had (the same address set, and no
\* binding when s had none), whatever d was bound to before.
C16_CopyIsIdentity ==
    [][\A ins \in CopyRefInstrs :
          Took(ins) =>
              /\ status' = "run"
              /\ get_local(locals', ins.ret) = get_local(locals, ins.a)]_vars

AssignInstrs == {ins \in TransferInstrs : ins.op = "Assign"}

LoadInstrs == {ins \in TransferInstrs : ins.op = "Load"}

\* C17: local bindings are strong updates: after Assign(lhs, rhs) the
\* binding of lhs is the binding rhs had (none when rhs had none); after
\* Load of the address constant a into lhs the binding of lhs is exactly
\* {Constant(a)}; nothing of lhs's previous address set survives, and
\* accesses is unchanged.
C17_AssignAndLoadOverwrite ==
    [][/\ \A ins \in AssignInstrs :
            Took(ins) =>
                /\ status' = "run"
                /\ get_local(locals', ins.ret) = get_local(locals, ins.a)
                /\ accesses' = accesses
       /\ \A ins \in LoadInstrs :
            Took(ins) =>
                /\ status' = "run"
                /\ get_local(locals', ins.ret) = {{Constant(ins.c)}}
                /\ accesses' = accesses]_vars

\* two instructions left the constant address, and nothing of the formal's
\* footprint, in both slots
C17_Witness ==
    /\ status = "run"
    /\ steps = 2
    /\ \A i \in Slots : get_local(locals, i) = {AbsAddr_constant(AddrConst)}
    /\ accesses = EmptyTrie

\* C18: write through a reference: after WriteRef(lhsRef, rhs) with lhsRef
\* bound, every footprint path in lhsRef's address set has the kind Write or
\* stronger, and locals holds at each of those paths exactly rhs's address
\* set when rhs is bound; when rhs is unbound locals is unchanged.
C18_WriteRefStores ==
    [][\A ins \in WriteRefInstrs :
          (Took(ins) /\ local_exists(locals, ins.a)) =>
              /\ status' = "run"
              /\ \A P \in footprint_paths(ValueOf(ins.a)) :
                    /\ HasWrite(accesses', P)
                    /\ local_exists(locals, ins.b) =>
                          NodeData(locals', P) = get_local(locals, ins.b)
              /\ ~local_exists(locals, ins.b) => locals' = locals]_vars

\* a field of the formal was borrowed and the formal's own address written
\* through the reference: the field path holds Write and the formal's
\* address set in place of the field's own footprint
C18_Witness ==
    /\ status = "run"
    /\ HasWrite(accesses, FieldPath)
    /\ NodeData(locals, FieldPath) = {AbsAddr_formal(0)}

\* instructions whose transfer function requires a binding, and the slot
\* that must be bound: the reference of WriteRef, the address of
\* BorrowGlobal, MoveFrom, Exists and MoveTo
NeedsBindingInstrs ==
    {ins \in TransferInstrs :
        ins.op \in {"WriteRef", "BorrowGlobal", "MoveFrom", "Exists",
                    "MoveTo"}}

RequiredSlot(ins) == IF ins.op = "MoveTo" THEN ins.b ELSE ins.a

\* C19: an unbound slot where the transfer function requires a binding is
\* fatal: copy_local with an unbound source fails and binds nothing; WriteRef
\* with an unbound reference operand and BorrowGlobal, MoveFrom, MoveTo or
\* Exists with an untracked address operand end the analysis in a failure
\* that changes neither accesses nor locals; a summary is produced only from
\* a state that has not failed.
C19_UnboundIsFatal ==
    [][/\ \A ins \in NeedsBindingInstrs :
            (Took(ins) /\ ~local_exists(locals, RequiredSlot(ins))) =>
                /\ status' = "failed"
                /\ err'[1] \in {"Unbound local",
                                "Untracked local of address type"}
                /\ accesses' = accesses
                /\ locals' = locals
                /\ summary' = NoSummary
       /\ status = "run" =>
            \A d \in Slots : \A s \in Slots :
                ~local_exists(locals, s) =>
                    /\ copy_local(State, d, s).status = "failed"
                    /\ copy_local(State, d, s).locals = locals
       /\ summary' # summary => (status = "run" /\ status' = "done")
       /\ status = "failed" => status' = "failed"]_vars

\* a write through an unbound reference has ended the analysis
C19_Witness ==
    /\ status = "failed"
    /\ err[1] = "Unbound local"
    /\ summary = NoSummary

\* an operation on global storage with an untracked address has ended it
C19_WitnessUntracked ==
    /\ status = "failed"
    /\ err[1] = "Untracked local of address type"
    /\ summary = NoSummary

\* C20: a call to a user procedure whose summary is missing from the cache
\* is not handled as a native call: it is surfaced as a condition of its own,
\* distinct from the failure of an unmodeled native function, and no native
\* model is applied, so that accesses and locals are as before the call.
C20_MissingSummaryIsNotNative ==
    [][\A ins \in PendingInstrs :
          Took(ins) =>
              /\ err'[1] # "Unsupported native function"
              /\ accesses' = accesses
              /\ locals' = locals]_vars

\* ---------------------------------------------------------------------------
\* The change flag of the joins (specification SpecLattice)

\* C21: the change flag of Access::join is exact: a join reports Changed if
\* and only if the value held by the cell after the join differs from the
\* value it held before (joining a smaller or equal kind into a larger one
\* reports Unchanged).
C21_ChangeFlagExact ==
    [][jlog' # jlog => (jres' = "Changed" <=> jself' # jself)]_vars

\* ---------------------------------------------------------------------------
\* Roots of accesses and the frame of apply_summary (specification Spec)

IsGlobalRoot(e) == ElemKind(e) = 3

ParamRoots == {Local(i) : i \in Params}

\* no address of the set is a footprint below a parameter of the procedure
NotBelowParam(addrs) ==
    \A v \in addrs : v.kind = "Footprint" => v.path[1] \notin ParamRoots

\* C22: root invariant of accesses: in the initial state and after any
\* sequence of instructions and applied summaries, every path of accesses
\* is rooted at a formal parameter of the procedure or at a global root; no
\* path is rooted at a non-parameter local or at a return slot, and the
\* callee's placeholder for its formal is not left behind: a call whose
\* actual holds no footprint below a parameter changes no path rooted at a
\* parameter.  The stored summaries and the produced summary satisfy the
\* same invariant.
C22_AccessRoots ==
    /\ [](/\ \A p \in DOMAIN accesses :
                p[1] \in ParamRoots \/ IsGlobalRoot(p[1])
          /\ \A p \in DOMAIN summary.accesses :
                p[1] \in ParamRoots \/ IsGlobalRoot(p[1])
          /\ \A fn \in DOMAIN cache : \A p \in DOMAIN cache[fn].accesses :
                p[1] \in ParamRoots \/ IsGlobalRoot(p[1]))
    /\ [][\A ins \in CallInstrs :
             (TookCall(ins) /\ NotBelowParam(ValueOf(ins.a))) =>
                 \A p \in DOMAIN accesses' :
                     p[1] \in ParamRoots =>
                         /\ p \in DOMAIN accesses
                         /\ accesses'[p] = accesses[p]]_vars

\* a callee that moves R<T> from its formal was applied at T1 to a slot
\* holding the constant address: accesses holds the global root 0xABC/R<T1>
\* and nothing rooted at the callee's formal
C22_Witness ==
    /\ status = "run"
    /\ <<"move_from", 1, {AbsAddr_constant(AddrConst)}>> \in calls
    /\ DOMAIN accesses = {<<GlobalRoot(AddrConst, 1)>>}

\* C23: frame of apply_summary: applying a callee summary leaves the stored
\* summaries as they were, and in the caller it changes only accesses and
\* the locals binding of the call's return slot; every locals entry rooted
\* elsewhere, the binding of the actual's slot included, is unchanged.
C23_ApplySummaryFrame ==
    [][\A ins \in CallInstrs :
          TookCall(ins) =>
              /\ cache' = cache
              /\ \A p \in DOMAIN locals \cup DOMAIN locals' :
                    p[1] # Local(ins.ret) =>
                        NodeData(locals', p) = NodeData(locals, p)]_vars

\* the result of borrow_global<T1>(formal) was stored in slot 1: slot 1
\* holds formal/R<T1>, and the actual's slot still holds the formal
C23_Witness ==
    /\ status = "run"
    /\ <<"borrow_global", 1, {AbsAddr_formal(0)}>> \in calls
    /\ get_local(locals, 1) =
          {AbsAddr_footprint(<<Local(0), GlobalOffset(1)>>)}
    /\ get_local(locals, 0) = {AbsAddr_formal(0)}
    /\ cache = SummaryCache

====
